---- MODULE Spec2Model ----
(***************************************************************************)
(* service-watchdog: the per-service monitoring and remediation state      *)
(* machine of ServiceWatchdog (watchdog.py) driven by the scheduler loop   *)
(* run()/run_once().  One monitored service, one tick of the loop per      *)
(* step.  Time is the integer number of seconds read by time.time().       *)
(***************************************************************************)
EXTENDS Integers, Sequences, FiniteSets, TLC

(* ------------------------------ bounds --------------------------------- *)

\* Ticks start while the clock is below MaxTime.
MaxTime == 10
\* Longest time a probe or a restart command takes, in seconds.
MaxOpTime == 1
\* Largest configured failure_threshold.
MaxThreshold == 2
\* Largest configured restart_delay.
MaxDelay == 2
\* Largest configured max_restarts.
MaxMaxRestarts == 2
\* Largest configured restart_window.
MaxWindow == 3
\* Largest configured check_interval.
MaxInterval == 2
\* Most kills of the daemon process in one behaviour.
MaxKills == 1

(* --------------------------- program values ---------------------------- *)

\* Optional[float] = None : an absent timestamp.
None == -1

\* time.time() when the daemon is constructed (any positive epoch second).
StartTime == 1

\* NotificationEvent kinds.
FAILURE == "failure"
RECOVERY == "recovery"
RESTART == "restart"
RESTART_FAILED == "restart_failed"

\* Python truthiness of an Optional[float]: None and 0 are false.
Truthy(x) == x # None /\ x # 0

Range(q) == {q[i] : i \in 1..Len(q)}

\* ServiceConfig tunables read by the supervisor; from_dict validates none of them.
Configs ==
    [failure_threshold : 0..MaxThreshold,
     restart_delay     : 0..MaxDelay,
     max_restarts      : -1..MaxMaxRestarts,
     restart_window    : 1..MaxWindow,
     check_interval    : 1..MaxInterval,
     enabled           : {TRUE}]

\* ServiceState(name=svc.name): the dataclass defaults.
FreshState ==
    [consecutive_failures |-> 0,
     restart_count        |-> 0,
     restart_window_start |-> None,
     last_check           |-> None,
     last_status          |-> "none",
     pending_restart_at   |-> None,
     alerted              |-> FALSE]

(* ------------------------------ state ---------------------------------- *)

VARIABLES
    cfg,            \* the service's ServiceConfig
    state,          \* the service's ServiceState
    now,            \* time.time() at the start of the next tick
    op,             \* what the last step did with the service
    emitted,        \* the events passed to notify() by the last tick
    outage_len,     \* unhealthy observations in the current outage
    outage_failures,\* FAILURE events emitted in the current outage
    ended,          \* length and FAILURE count of the last outage that ended
    restart_times,  \* the times of all controller.restart() invocations
    exceeded,       \* 'exceeded maximum' events since the window was last reset
    timing,         \* when the outage began and when its first restart was made
    dry_run,        \* WatchdogConfig.dry_run
    running,        \* run() has started and the process is alive
    disk,           \* the state file
    saved,          \* how the last _save_state ended ("recovered": written
                    \* after a write that failed)
    pid_file,       \* the PID file
    spawned,        \* a subprocess has been spawned by the controller
    kills,          \* how often the daemon process has been killed
    window_opened,  \* when the rate-limit window in force was opened
    loaded_alerted, \* the state was loaded with alerted = true, no recovery since
    notified,       \* what notify() did with the sinks in the last tick
    probe,          \* one call of ServiceMonitor.check: its inputs and result
    ctl,            \* one call of a ServiceController method: inputs and result
    sink,           \* one call of a notifier's send: its inputs and result
    signalled       \* a signal handler has set self.running = False

vars == <<cfg, state, now, op, emitted, outage_len, outage_failures, ended,
          restart_times, exceeded, timing, dry_run, running, disk, saved, pid_file,
          spawned, kills, window_opened, loaded_alerted, notified, probe,
          ctl, sink, signalled>>

\* The supervisor's variables, which the calls followed alone leave alone.
supervisor == <<cfg, state, now, op, emitted, outage_len, outage_failures,
                ended, restart_times, exceeded, timing, dry_run, running,
                disk, saved, pid_file, spawned, kills, window_opened,
                loaded_alerted, notified, signalled>>

(* ------------------------------ notifiers ------------------------------ *)

\* The kinds of event a sink can be handed; "test" stands for any kind that
\* is none of the four.
EventKinds == {FAILURE, RECOVERY, RESTART, RESTART_FAILED, "test"}

\* NotifierConfig: enabled and the per-kind flags.
SinkConfigs ==
    [enabled : BOOLEAN, on_failure : BOOLEAN, on_recovery : BOOLEAN,
     on_restart : BOOLEAN]

\* BaseNotifier.should_notify
ShouldNotify_IgnoresEnabled(c, event) ==
    CASE event = FAILURE -> c.on_failure
      [] event = RECOVERY -> c.on_recovery
      [] event \in {RESTART, RESTART_FAILED} -> c.on_restart
      [] OTHER -> TRUE
ShouldNotify(c, event) ==
    IF ~c.enabled THEN FALSE
    ELSE CASE event = FAILURE -> c.on_failure
           [] event = RECOVERY -> c.on_recovery
           [] event \in {RESTART, RESTART_FAILED} -> c.on_restart
           [] OTHER -> TRUE

\* A notifier's send(event): skipped when should_notify is false, refused
\* when the sink's credentials are missing, else one transport call whose
\* error is caught.
Send(c, credentials, event, transport) ==
    IF ~ShouldNotify(c, event)
    THEN [ok |-> TRUE, message |-> "skipped", transported |-> FALSE]
    ELSE IF ~credentials
         THEN [ok |-> FALSE, message |-> "required", transported |-> FALSE]
         ELSE IF transport = "ok"
              THEN [ok |-> TRUE, message |-> "sent", transported |-> TRUE]
              ELSE [ok |-> FALSE, message |-> "error", transported |-> TRUE]

(* ------------------------------- notify -------------------------------- *)

\* self.notifiers, in configured order.
SinkOrder == <<"telegram", "webhook">>

\* What one notifier.send(event) does: succeed, return failure, raise.
SinkOutcomes == [Range(SinkOrder) -> {"ok", "failed", "raise"}]

\* try: notifier.send(event) ... except Exception: does the error leave notify()?
Propagates_Uncaught(outcome) == outcome = "raise"
Propagates(outcome) == FALSE

\* for notifier in self.notifiers, from the i-th on: the sinks whose send()
\* was called and whether an exception left the loop.
RECURSIVE NotifyFrom(_, _)
NotifyFrom(i, o) ==
    IF i > Len(SinkOrder)
    THEN [calls |-> <<>>, raised |-> FALSE]
    ELSE IF Propagates(o[SinkOrder[i]])
         THEN [calls |-> <<SinkOrder[i]>>, raised |-> TRUE]
         ELSE LET rest == NotifyFrom(i + 1, o)
              IN  [calls |-> <<SinkOrder[i]>> \o rest.calls, raised |-> rest.raised]

\* notify(event) with the sinks behaving as o.
Notify(o) ==
    LET n == NotifyFrom(1, o)
    IN  [calls |-> n.calls, raised |-> n.raised,
         sink_raised |-> o[SinkOrder[1]] = "raise"]

\* No event, no call of notify().
NoNotify == [calls |-> <<>>, raised |-> FALSE, sink_raised |-> FALSE]

\* Every sink delivers every event.
SinksWork == {[s \in Range(SinkOrder) |-> "ok"]}

\* The outcomes of notifying the events of one tick, over the sink
\* behaviours in outcomes.
NotifyResults(events, outcomes) ==
    IF events = <<>> THEN {NoNotify} ELSE {Notify(o) : o \in outcomes}

(* --------------------------- handle_failure ---------------------------- *)

\* if state.consecutive_failures >= svc_config.failure_threshold
ThresholdReached_OffByOne(s, c) == s.consecutive_failures + 1 >= c.failure_threshold
ThresholdReached(s, c) == s.consecutive_failures >= c.failure_threshold

\* if not state.alerted
ShouldAlert_Always(s) == TRUE
ShouldAlert(s) == ~s.alerted

\* state.pending_restart_at = time.time() + svc_config.restart_delay
RestartAt_NoDelay(c, t) == t
RestartAt(c, t) == t + c.restart_delay

\* handle_failure at time t: the new state, the events notified and the
\* state at the moment notify() is called (before).
\* "Schedule restart if not already pending": the restart counter is not
\* consulted.
ShouldSchedule_UnlessLimited(s, c) ==
    s.pending_restart_at = None /\ s.restart_count < c.max_restarts
ShouldSchedule(s, c) == s.pending_restart_at = None

HandleFailure(s, c, t) ==
    LET s1 == [s EXCEPT !.consecutive_failures = @ + 1]
    IN  IF ThresholdReached(s1, c)
        THEN LET alert == ShouldAlert(s1)
                 s2 == IF alert THEN [s1 EXCEPT !.alerted = TRUE] ELSE s1
                 s3 == IF ShouldSchedule(s2, c)
                       THEN [s2 EXCEPT !.pending_restart_at = RestartAt(c, t)]
                       ELSE s2
             IN  [state |-> s3, events |-> IF alert THEN <<FAILURE>> ELSE <<>>,
                  before |-> s1]
        ELSE [state |-> s1, events |-> <<>>, before |-> s1]

(* --------------------------- handle_recovery --------------------------- *)

\* if state.consecutive_failures > 0 or state.alerted
RecoveryEdge_AlertedOnly(s) == s.alerted
RecoveryEdge(s) == s.consecutive_failures > 0 \/ s.alerted

\* the reset at the end of handle_recovery
ResetOnRecovery_KeepsCounter(s) ==
    [s EXCEPT !.alerted = FALSE, !.pending_restart_at = None]
ResetOnRecovery_KeepsPending(s) ==
    [s EXCEPT !.consecutive_failures = 0, !.alerted = FALSE]
ResetOnRecovery_KeepsAlerted(s) ==
    [s EXCEPT !.consecutive_failures = 0, !.pending_restart_at = None]
ResetOnRecovery_ResetsWindow(s) ==
    [s EXCEPT !.consecutive_failures = 0,
              !.alerted = FALSE,
              !.pending_restart_at = None,
              !.restart_count = 0,
              !.restart_window_start = None]
ResetOnRecovery(s) ==
    [s EXCEPT !.consecutive_failures = 0,
              !.alerted = FALSE,
              !.pending_restart_at = None]

HandleRecovery_NoReset(s) ==
    [state  |-> s,
     events |-> IF RecoveryEdge(s) THEN <<RECOVERY>> ELSE <<>>,
     before |-> s]
HandleRecovery(s) ==
    [state  |-> ResetOnRecovery(s),
     events |-> IF RecoveryEdge(s) THEN <<RECOVERY>> ELSE <<>>,
     before |-> s]

(* ------------------------------ controller ----------------------------- *)

\* The commands a ServiceConfig can carry.
Commands == {"restart_command", "start_command", "stop_command"}

\* What subprocess.run does with a command: return code 0, another return
\* code, TimeoutExpired, another exception.
CommandOutcomes == {"zero", "nonzero", "timeout", "error"}

\* _run_command(cmd, action): in dry-run nothing is run.
RunCommand_IgnoresDryRun(cmd, action, dry, outcomes) ==
    [ok      |-> outcomes[cmd] = "zero",
     message |-> IF outcomes[cmd] = "zero" THEN "successful" ELSE outcomes[cmd],
     ran     |-> <<cmd>>]
RunCommand(cmd, action, dry, outcomes) ==
    IF dry
    THEN [ok |-> TRUE, message |-> "dry_run", ran |-> <<>>]
    ELSE [ok      |-> outcomes[cmd] = "zero",
          message |-> IF outcomes[cmd] = "zero" THEN "successful"
                      ELSE outcomes[cmd],
          ran     |-> <<cmd>>]

\* ServiceController.start: start_command or restart_command.
Start(commands, dry, outcomes) ==
    IF "start_command" \in commands
    THEN RunCommand("start_command", "start", dry, outcomes)
    ELSE IF "restart_command" \in commands
         THEN RunCommand("restart_command", "start", dry, outcomes)
         ELSE [ok |-> FALSE, message |-> "no_command", ran |-> <<>>]

\* ServiceController.stop
Stop(commands, dry, outcomes) ==
    IF "stop_command" \in commands
    THEN RunCommand("stop_command", "stop", dry, outcomes)
    ELSE [ok |-> FALSE, message |-> "no_command", ran |-> <<>>]

\* if not success: return False, f"Stop failed: {msg}"
AbortsRestart_Never(stopped) == FALSE
AbortsRestart(stopped) == ~stopped.ok

\* ServiceController.restart
Restart(commands, dry, outcomes) ==
    IF "restart_command" \in commands
    THEN RunCommand("restart_command", "restart", dry, outcomes)
    ELSE IF "stop_command" \in commands
         THEN LET stopped == Stop(commands, dry, outcomes)
                  started == Start(commands, dry, outcomes)
              IN  IF AbortsRestart(stopped)
                  THEN [ok |-> FALSE, message |-> "stop_failed",
                        ran |-> stopped.ran]
                  ELSE [ok |-> started.ok, message |-> started.message,
                        ran |-> stopped.ran \o started.ran]
         ELSE Start(commands, dry, outcomes)

\* ServiceController.restart() of a service with its commands configured:
\* in dry-run _run_command returns (True, ...) before subprocess.run.
ControllerRestart_DryRuns(dry, cmd_ok) == [ok |-> cmd_ok, spawned |-> TRUE]
ControllerRestart(dry, cmd_ok) ==
    IF dry THEN [ok |-> TRUE, spawned |-> FALSE]
    ELSE [ok |-> cmd_ok, spawned |-> TRUE]

(* --------------------------- attempt_restart --------------------------- *)

\* elif now - state.restart_window_start > svc_config.restart_window
WindowExpired_Inclusive(s, c, t) == t - s.restart_window_start >= c.restart_window
WindowExpired(s, c, t) == t - s.restart_window_start > c.restart_window

\* "Check restart window": start or roll the window.
WindowMaintenance_KeepsCount(s, c, t) ==
    IF s.restart_window_start = None \/ WindowExpired(s, c, t)
    THEN [s EXCEPT !.restart_window_start = t]
    ELSE s

WindowMaintenance(s, c, t) ==
    IF s.restart_window_start = None
    THEN [s EXCEPT !.restart_window_start = t, !.restart_count = 0]
    ELSE IF WindowExpired(s, c, t)
         THEN [s EXCEPT !.restart_window_start = t, !.restart_count = 0]
         ELSE s

\* if state.restart_count >= svc_config.max_restarts
RateLimited_Strict(s, c) == s.restart_count > c.max_restarts
RateLimited(s, c) == s.restart_count >= c.max_restarts

\* state.restart_count += 1 ; state.pending_restart_at = None
CountAttempt_SuccessOnly(s, success) ==
    [s EXCEPT !.restart_count = IF success THEN @ + 1 ELSE @,
              !.pending_restart_at = None]
CountAttempt_KeepsPending(s, success) ==
    [s EXCEPT !.restart_count = @ + 1]
CountAttempt_ResetsFailures(s, success) ==
    [s EXCEPT !.restart_count = @ + 1, !.pending_restart_at = None,
              !.consecutive_failures = 0]
CountAttempt(s, success) ==
    [s EXCEPT !.restart_count = @ + 1, !.pending_restart_at = None]

\* state.pending_restart_at = None  # Stop trying
StopTrying_KeepsPending(s) == s
StopTrying(s) == [s EXCEPT !.pending_restart_at = None]

\* attempt_restart entered at time t; the controller takes d seconds and
\* returns success.  invoked: controller.restart() was called; reset: the
\* window was started or rolled; took: the time spent in the call; before:
\* the state at the moment notify() is called.
AttemptRestart(s, c, t, success, d) ==
    LET s1 == WindowMaintenance(s, c, t)
        reset == s1.restart_window_start # s.restart_window_start
    IN  IF RateLimited(s1, c)
        THEN [state   |-> StopTrying(s1),
              events  |-> <<RESTART_FAILED>>, before |-> s1,
              invoked |-> FALSE, reset |-> reset, took |-> 0]
        ELSE LET s2 == CountAttempt(s1, success)
                 s3 == IF success THEN s2
                       ELSE [s2 EXCEPT !.pending_restart_at =
                                           t + d + c.restart_delay]
             IN  [state   |-> s3,
                  events  |-> IF success THEN <<RESTART>> ELSE <<RESTART_FAILED>>,
                  before  |-> s3,
                  invoked |-> TRUE, reset |-> reset, took |-> d]

(* ---------------------------- check_service ---------------------------- *)

\* check_service: the probe returned `healthy` and time.time() is t.
CheckService(s, healthy, t) ==
    [s EXCEPT !.last_check = t,
              !.last_status = IF healthy THEN "healthy" ELSE "unhealthy"]

(* -------------------------- ServiceMonitor.check ----------------------- *)

\* "Try each detection method in order of preference"
MethodOrder == <<"health_url", "port", "pid_file", "process_name">>

\* What the environment answers to each detection method.
MethodOutcomes ==
    [health_url   |-> {"below_500", "status_500", "timeout", "transport_error"},
     port         |-> {"open", "closed", "socket_error"},
     pid_file     |-> {"missing", "unparseable", "unreadable", "stale", "alive",
                       "gone_before_open", "gone_after_open", "access_denied"},
     process_name |-> {"match", "no_match"}]

\* ServiceStatus(name, running=False): check_method "unknown", error None.
NewStatus == [running |-> FALSE, check_method |-> "unknown", error |-> "None"]

\* ServiceStatus.healthy: running and no error recorded.
Healthy_RunningOnly(status) == status.running
Healthy(status) == status.running /\ status.error = "None"

\* _check_health_url: running iff the status code is below 500; Timeout and
\* RequestException are caught.
CheckHealthUrl(status, outcome) ==
    LET s == [status EXCEPT !.check_method = "health_url"]
    IN  CASE outcome = "below_500" ->
                 [status |-> [s EXCEPT !.running = TRUE], threw |-> FALSE]
          [] outcome = "status_500" ->
                 [status |-> [s EXCEPT !.running = FALSE,
                                       !.error = "Health check returned 500"],
                  threw |-> FALSE]
          [] outcome = "timeout" ->
                 [status |-> [s EXCEPT !.error = "Health check timed out"],
                  threw |-> FALSE]
          [] outcome = "transport_error" ->
                 [status |-> [s EXCEPT !.error = "Health check failed"],
                  threw |-> FALSE]

\* _check_port: running iff connect_ex returns 0; socket.error is caught.
CheckPort(status, outcome) ==
    LET s == [status EXCEPT !.check_method = "port"]
    IN  CASE outcome = "open" ->
                 [status |-> [s EXCEPT !.running = TRUE], threw |-> FALSE]
          [] outcome = "closed" ->
                 [status |-> [s EXCEPT !.running = FALSE,
                                       !.error = "Port not listening"],
                  threw |-> FALSE]
          [] outcome = "socket_error" ->
                 [status |-> [s EXCEPT !.error = "Socket error"], threw |-> FALSE]

\* _check_pid_file: only ValueError and psutil.NoSuchProcess are caught; an
\* OSError of read_text and psutil.AccessDenied leave the method, and
\* status.running is set before the process is queried.
CheckPidFile(status, outcome) ==
    LET s == [status EXCEPT !.check_method = "pid_file"]
    IN  CASE outcome = "missing" ->
                 [status |-> [s EXCEPT !.error = "PID file not found"],
                  threw |-> FALSE]
          [] outcome = "unparseable" ->
                 [status |-> [s EXCEPT !.error = "Invalid PID file"],
                  threw |-> FALSE]
          [] outcome = "unreadable" -> [status |-> s, threw |-> TRUE]
          [] outcome = "stale" ->
                 [status |-> [s EXCEPT !.error = "PID not running (stale PID file)"],
                  threw |-> FALSE]
          [] outcome = "alive" ->
                 [status |-> [s EXCEPT !.running = TRUE], threw |-> FALSE]
          [] outcome = "gone_before_open" ->
                 [status |-> [s EXCEPT !.error = "Process not found"],
                  threw |-> FALSE]
          [] outcome = "gone_after_open" ->
                 [status |-> [s EXCEPT !.running = TRUE,
                                       !.error = "Process not found"],
                  threw |-> FALSE]
          [] outcome = "access_denied" ->
                 [status |-> [s EXCEPT !.running = TRUE], threw |-> TRUE]

\* _check_process_name: running iff a process has the name; no error is set.
CheckProcessName(status, outcome) ==
    LET s == [status EXCEPT !.check_method = "process_name"]
    IN  IF outcome = "match"
        THEN [status |-> [s EXCEPT !.running = TRUE], threw |-> FALSE]
        ELSE [status |-> s, threw |-> FALSE]

\* status = self._check_<method>(status)
CheckMethod(m, status, outcome) ==
    CASE m = "health_url"   -> CheckHealthUrl(status, outcome)
      [] m = "port"         -> CheckPort(status, outcome)
      [] m = "pid_file"     -> CheckPidFile(status, outcome)
      [] m = "process_name" -> CheckProcessName(status, outcome)

\* if status.running: return status
Returns_Never(status) == FALSE
Returns(status) == status.running

\* check() from the i-th method of the order on; acc is the status so far
\* and the methods consulted, each with the running it reported.
RECURSIVE CheckFrom(_, _, _, _)
CheckFrom(i, methods, env, acc) ==
    IF i > Len(MethodOrder) THEN acc
    ELSE LET m == MethodOrder[i]
         IN  IF m \notin methods THEN CheckFrom(i + 1, methods, env, acc)
             ELSE LET r == CheckMethod(m, acc.status, env[m])
                      acc2 == [status    |-> r.status,
                               consulted |-> Append(acc.consulted,
                                                 [method  |-> m,
                                                  running |-> r.status.running,
                                                  outcome |-> env[m]]),
                               threw     |-> r.threw]
                  IN  IF r.threw \/ Returns(r.status) THEN acc2
                      ELSE CheckFrom(i + 1, methods, env, acc2)

\* ServiceMonitor(config).check() with the methods configured and the
\* environment env.
Check(methods, env) ==
    CheckFrom(1, methods, env,
              [status |-> NewStatus, consulted |-> <<>>, threw |-> FALSE])

(* ----------------------------- state store ----------------------------- *)

\* The name of the monitored service.
Svc == "svc"

\* self.state: WatchdogState with the one service's ServiceState.
WatchdogState(s, started) ==
    [started_at |-> started, services |-> [n \in {Svc} |-> s]]

\* The per-service document written by WatchdogState.to_dict.
ServiceToDict_NoPending(svc) ==
    [consecutive_failures |-> svc.consecutive_failures,
     restart_count        |-> svc.restart_count,
     restart_window_start |-> svc.restart_window_start,
     last_check           |-> svc.last_check,
     alerted              |-> svc.alerted]
ServiceToDict(svc) ==
    [consecutive_failures |-> svc.consecutive_failures,
     restart_count        |-> svc.restart_count,
     restart_window_start |-> svc.restart_window_start,
     last_check           |-> svc.last_check,
     pending_restart_at   |-> svc.pending_restart_at,
     alerted              |-> svc.alerted]

\* WatchdogState.to_dict
ToDict(ws) ==
    [started_at |-> ws.started_at,
     services   |-> [n \in DOMAIN ws.services |-> ServiceToDict(ws.services[n])]]

\* dict.get(key, default)
Get(d, k, default) == IF k \in DOMAIN d THEN d[k] ELSE default

\* ServiceState(name=name, ...=svc_data.get(...)) in WatchdogState.from_dict
ServiceFromDict_NoAlerted(d) ==
    [consecutive_failures |-> Get(d, "consecutive_failures", 0),
     restart_count        |-> Get(d, "restart_count", 0),
     restart_window_start |-> Get(d, "restart_window_start", None),
     last_check           |-> Get(d, "last_check", None),
     last_status          |-> "none",
     pending_restart_at   |-> Get(d, "pending_restart_at", None),
     alerted              |-> FALSE]
ServiceFromDict(d) ==
    [consecutive_failures |-> Get(d, "consecutive_failures", 0),
     restart_count        |-> Get(d, "restart_count", 0),
     restart_window_start |-> Get(d, "restart_window_start", None),
     last_check           |-> Get(d, "last_check", None),
     last_status          |-> "none",
     pending_restart_at   |-> Get(d, "pending_restart_at", None),
     alerted              |-> Get(d, "alerted", FALSE)]

\* WatchdogState.from_dict, called at time t
FromDict(data, t) ==
    LET svcs == Get(data, "services", <<>>)
    IN  [started_at |-> Get(data, "started_at", t),
         services   |-> [n \in DOMAIN svcs |-> ServiceFromDict(svcs[n])]]

\* The state file: absent, a complete document, or the beginning of one.
NoFile == [kind |-> "absent", data |-> <<>>]
CompleteFile(data) == [kind |-> "complete", data |-> data]
TruncatedFile == [kind |-> "truncated", data |-> <<>>]

\* A file that exists and that open() refuses, and a file whose JSON parses
\* but in which some entry is not a mapping, so that from_dict raises
\* AttributeError in its loop; data is the part of it that is well formed.
UnreadableFile == [kind |-> "unreadable", data |-> <<>>]
WrongShapeFile(data) == [kind |-> "wrong_shape", data |-> data]

\* _save_state run to its end: nothing in dry-run, else the file is
\* rewritten with to_dict().
SaveState_Stale(file, ws, dry) == file
SaveState(file, ws, dry) == IF dry THEN file ELSE CompleteFile(ToDict(ws))

\* _save_state cut short by a kill: open(state_path, "w") has truncated the
\* file and json.dump has written a part of the document, or nothing.
SaveStateKilled(file, ws, dry) == IF dry THEN file ELSE TruncatedFile

\* _load_state at time t: a missing file is skipped, one that json.load
\* rejects is logged, and self.state stays what __init__ built.
LoadState_KeepsPartial(ws, file, t) ==
    IF file.kind \in {"complete", "wrong_shape"} THEN FromDict(file.data, t) ELSE ws
LoadState(ws, file, t) ==
    IF file.kind = "complete" THEN FromDict(file.data, t) ELSE ws

\* state = self.state.services.get(name); if not state: ServiceState(name)
ServiceOf(ws) == IF Svc \in DOMAIN ws.services THEN ws.services[Svc] ELSE FreshState

(* ------------------------------- run_once ------------------------------ *)

\* if state.pending_restart_at and time.time() >= state.pending_restart_at
\* if not svc_config.enabled: continue
Enabled_Always(c) == TRUE
Enabled(c) == c.enabled

RestartDue_Strict(s, t) == Truthy(s.pending_restart_at) /\ t > s.pending_restart_at
RestartDue(s, t) == Truthy(s.pending_restart_at) /\ t >= s.pending_restart_at

\* if state.last_check: elapsed = time.time() - state.last_check;
\*     if elapsed < svc_config.check_interval: continue
CheckNotDue_Never(s, c, t) == FALSE

CheckNotDue(s, c, t) == Truthy(s.last_check) /\ t - s.last_check < c.check_interval

\* No call of ServiceMonitor.check is followed.
NoProbe == [methods |-> {}, env |-> <<>>, done |-> FALSE,
            threw |-> FALSE, status |-> NewStatus, consulted |-> <<>>]

NoTiming == [healthy_at |-> None, outage_at |-> None,
             restart_at |-> None, limited |-> FALSE, refused |-> FALSE]

\* ServiceWatchdog(config) has been constructed; run() has not been called.
\* No call of a ServiceController method is followed.
NoCtl == [commands |-> {}, outcomes |-> <<>>, call |-> "none", done |-> FALSE,
          ok |-> FALSE, message |-> "none", ran |-> <<>>]

\* No call of a notifier's send is followed.
NoSink == [config |-> <<>>, credentials |-> FALSE, event |-> "none",
           transport |-> "none", done |-> FALSE, should |-> FALSE,
           ok |-> FALSE, message |-> "none", transported |-> FALSE]

\* The supervisor constructed over one of configs, dry or not.
InitFiles(configs, dry_runs, files, pid_files) ==
    /\ cfg \in configs
    /\ dry_run \in dry_runs
    /\ state = FreshState
    /\ now = StartTime
    /\ op = "none"
    /\ emitted = <<>>
    /\ outage_len = 0
    /\ outage_failures = 0
    /\ ended = [len |-> 0, failures |-> 0]
    /\ restart_times = {}
    /\ exceeded = 0
    /\ timing = NoTiming
    /\ running = FALSE
    /\ disk \in files
    /\ saved = "none"
    /\ pid_file \in pid_files
    /\ spawned = FALSE
    /\ kills = 0
    /\ window_opened = None
    /\ loaded_alerted = FALSE
    /\ notified = NoNotify
    /\ signalled = FALSE

\* Construction where neither the state file nor the PID file exists.
InitCore(configs, dry_runs) == InitFiles(configs, dry_runs, {NoFile}, {"absent"})

InitWith(configs, dry_runs, probes) ==
    /\ InitCore(configs, dry_runs)
    /\ probe \in probes
    /\ ctl = NoCtl
    /\ sink = NoSink

\* A real (not dry) run of a freshly constructed daemon.
Init == InitWith(Configs, {FALSE}, {NoProbe})

\* run() up to its loop: _load_state, _write_pid_file.
\* The alert flag a complete state file holds for the service.
PersistedAlerted(file) ==
    /\ file.kind = "complete"
    /\ "services" \in DOMAIN file.data
    /\ Svc \in DOMAIN file.data.services
    /\ "alerted" \in DOMAIN file.data.services[Svc]
    /\ file.data.services[Svc].alerted

RunStart ==
    /\ ~running
    /\ running' = TRUE
    /\ state' = ServiceOf(LoadState(WatchdogState(state, now), disk, now))
    /\ pid_file' = IF dry_run THEN pid_file ELSE "written"
    /\ loaded_alerted' = PersistedAlerted(disk)
    /\ signalled' = FALSE
    /\ op' = "started"
    /\ emitted' = <<>>
    /\ notified' = NoNotify
    /\ UNCHANGED <<ctl, sink, cfg, now, outage_len, outage_failures, ended,
                   restart_times, exceeded, timing, dry_run, disk, saved, spawned,
                   kills, window_opened, probe>>

\* How a tick ends: run_once returns after _save_state, with or without a
\* signal handled during the tick, or the process is killed before
\* _save_state or inside it.  A killed daemon is relaunched: the new process
\* constructs fresh state and has not yet called run().
Fates == {"completes", "signalled", "killed_before_save", "killed_in_save",
          "write_refused", "write_broken"}

\* _save_state catches the exception of a write that fails: mkdir or open
\* refuses and the file is as it was, or json.dump fails after open has
\* truncated the file.
SaveFaults == {"write_refused", "write_broken"}

\* run_once returns.
Finishes(fate) == fate \in {"completes", "signalled"} \cup SaveFaults

\* while self.running:
LoopContinues_Always(sig) == TRUE
LoopContinues(sig) == ~sig

\* _remove_pid_file: an existing PID file is unlinked.
RemovePidFile_UnlessDryRun(file, dry) == IF dry THEN file ELSE "absent"
RemovePidFile(file, dry) == "absent"

\* The end of a tick that leaves the service's state s in memory.
TickEnd(fate, s) ==
    /\ LoopContinues(signalled)
    /\ ~Finishes(fate) => kills < MaxKills
    /\ fate \in SaveFaults => ~dry_run
    /\ state' = IF Finishes(fate) THEN s ELSE FreshState
    /\ disk' = CASE fate \in {"completes", "signalled"} ->
                        SaveState(disk, WatchdogState(s, StartTime), dry_run)
                 [] fate = "write_refused" -> disk
                 [] fate = "write_broken" ->
                        SaveStateKilled(disk, WatchdogState(s, StartTime), dry_run)
                 [] fate = "killed_before_save" -> disk
                 [] fate = "killed_in_save" ->
                        SaveStateKilled(disk, WatchdogState(s, StartTime), dry_run)
    /\ saved' = IF ~Finishes(fate) THEN "none"
                ELSE IF dry_run THEN "skipped"
                ELSE IF fate \in SaveFaults THEN "failed"
                ELSE IF saved = "failed" THEN "recovered" ELSE "written"
    /\ running' = Finishes(fate)
    /\ kills' = IF Finishes(fate) THEN kills ELSE kills + 1
    /\ signalled' = (fate = "signalled")

\* A tick whose pending restart is due: attempt_restart, no probe, sleep(1).
RunOnceRestartF(fate, sinks) ==
    /\ running
    /\ now < MaxTime
    /\ Enabled(cfg)
    /\ RestartDue(state, now)
    /\ \E cmd_ok \in BOOLEAN, d \in 0..MaxOpTime :
         LET res == ControllerRestart(dry_run, cmd_ok)
             r == AttemptRestart(state, cfg, now, res.ok,
                                 IF res.spawned THEN d ELSE 0)
         IN  \E n \in NotifyResults(r.events, sinks) :
               /\ TickEnd(fate, IF n.raised THEN r.before ELSE r.state)
               /\ notified' = n
               /\ emitted' = r.events
               /\ op' = IF ~r.invoked THEN "limited"
                        ELSE IF res.ok THEN "restart_ok" ELSE "restart_failed"
               /\ restart_times' = IF r.invoked THEN restart_times \cup {now}
                                   ELSE restart_times
               /\ spawned' = (spawned \/ (r.invoked /\ res.spawned))
               /\ exceeded' = (IF r.reset THEN 0 ELSE exceeded)
                              + (IF r.invoked THEN 0 ELSE 1)
               /\ window_opened' =
                      IF r.reset /\ (window_opened = None
                                      \/ now - window_opened > cfg.restart_window)
                      THEN now ELSE window_opened
               /\ timing' = IF r.invoked
                            THEN [timing EXCEPT !.restart_at =
                                      IF @ = None THEN now ELSE @]
                            ELSE IF timing.restart_at = None
                                 THEN [timing EXCEPT !.limited = TRUE,
                                                     !.refused = TRUE]
                                 ELSE [timing EXCEPT !.refused = TRUE]
               /\ now' = now + r.took + 1
    /\ loaded_alerted' = loaded_alerted
    /\ UNCHANGED <<ctl, sink, cfg, outage_len, outage_failures, ended, dry_run, pid_file, probe>>

\* A tick for a service that is not enabled: the loop body is skipped, the
\* state is saved, sleep(1).
RunOnceDisabledF(fate) ==
    /\ running
    /\ now < MaxTime
    /\ ~Enabled(cfg)
    /\ TickEnd(fate, state)
    /\ op' = "disabled"
    /\ emitted' = <<>>
    /\ notified' = NoNotify
    /\ now' = now + 1
    /\ loaded_alerted' = loaded_alerted
    /\ UNCHANGED <<ctl, sink, cfg, outage_len, outage_failures, ended, restart_times,
                   exceeded, timing, dry_run, pid_file, spawned,
                   window_opened, probe>>

\* A tick in which the last probe is younger than check_interval: sleep(1).
RunOnceSkipF(fate, sinks) ==
    /\ running
    /\ now < MaxTime
    /\ Enabled(cfg)
    /\ ~RestartDue(state, now)
    /\ CheckNotDue(state, cfg, now)
    /\ TickEnd(fate, state)
    /\ op' = "skip"
    /\ emitted' = <<>>
    /\ notified' = NoNotify
    /\ now' = now + 1
    /\ loaded_alerted' = loaded_alerted
    /\ UNCHANGED <<ctl, sink, cfg, outage_len, outage_failures, ended, restart_times,
                   exceeded, timing, dry_run, pid_file, spawned,
                   window_opened, probe>>

\* A tick that probes a healthy service: check_service, handle_recovery.
RunOnceHealthyF(fate, sinks) ==
    /\ running
    /\ now < MaxTime
    /\ Enabled(cfg)
    /\ ~RestartDue(state, now)
    /\ ~CheckNotDue(state, cfg, now)
    /\ \E d \in 0..MaxOpTime :
         LET r == HandleRecovery(CheckService(state, TRUE, now + d))
         IN  \E n \in NotifyResults(r.events, sinks) :
               /\ TickEnd(fate, IF n.raised THEN r.before ELSE r.state)
               /\ notified' = n
               /\ emitted' = r.events
               /\ timing' = [NoTiming EXCEPT !.healthy_at = now + d]
               /\ now' = now + d + 1
    /\ op' = "healthy"
    /\ ended' = IF outage_len > 0
                THEN [len |-> outage_len, failures |-> outage_failures]
                ELSE ended
    /\ outage_len' = 0
    /\ outage_failures' = 0
    /\ loaded_alerted' = FALSE
    /\ UNCHANGED <<ctl, sink, cfg, restart_times, exceeded, dry_run, pid_file, spawned,
                   window_opened, probe>>

\* A tick that probes an unhealthy service: check_service, handle_failure.
RunOnceUnhealthyF(fate, sinks) ==
    /\ running
    /\ now < MaxTime
    /\ Enabled(cfg)
    /\ ~RestartDue(state, now)
    /\ ~CheckNotDue(state, cfg, now)
    /\ \E d \in 0..MaxOpTime :
         LET r == HandleFailure(CheckService(state, FALSE, now + d), cfg, now + d)
         IN  \E n \in NotifyResults(r.events, sinks) :
               /\ TickEnd(fate, IF n.raised THEN r.before ELSE r.state)
               /\ notified' = n
               /\ emitted' = r.events
               /\ outage_failures' = outage_failures
                                     + (IF FAILURE \in Range(r.events) THEN 1 ELSE 0)
               /\ timing' = IF outage_len = 0
                            THEN [timing EXCEPT !.outage_at = now + d]
                            ELSE timing
               /\ now' = now + d + 1
    /\ op' = "unhealthy"
    /\ outage_len' = outage_len + 1
    /\ loaded_alerted' = loaded_alerted
    /\ UNCHANGED <<ctl, sink, cfg, ended, restart_times, exceeded, dry_run, pid_file,
                   spawned, window_opened, probe>>

\* The ticks of a daemon that is not killed and whose sinks work.
RunOnceRestart == RunOnceRestartF("completes", SinksWork)
RunOnceSkip == RunOnceSkipF("completes", SinksWork)
RunOnceHealthy == RunOnceHealthyF("completes", SinksWork)
RunOnceUnhealthy == RunOnceUnhealthyF("completes", SinksWork)

Next ==
    \/ RunStart
    \/ RunOnceRestart
    \/ RunOnceSkip
    \/ RunOnceHealthy
    \/ RunOnceUnhealthy

Spec == Init /\ [][Next]_vars

\* The same daemon with ticks exactly one second apart: probes and
\* commands take no time, sleep(1) is the whole tick.
NextUnit ==
    \/ RunStart
    \/ RunOnceRestart /\ now' = now + 1
    \/ RunOnceSkip /\ now' = now + 1
    \/ RunOnceHealthy /\ now' = now + 1
    \/ RunOnceUnhealthy /\ now' = now + 1

SpecUnit == Init /\ [][NextUnit]_vars

\* The configurations of the daemon that is killed and relaunched: every
\* unhealthy observation reaches the threshold.
DaemonConfigs ==
    {c \in Configs : /\ c.failure_threshold = 1
                     /\ c.restart_delay <= 1
                     /\ c.max_restarts >= 1
                     /\ c.restart_window = MaxWindow}

InitDaemon == InitWith(DaemonConfigs, BOOLEAN, {NoProbe})

\* The process is killed while the loop sleeps between two ticks.
KillBetweenTicks ==
    /\ running
    /\ kills < MaxKills
    /\ kills' = kills + 1
    /\ running' = FALSE
    /\ state' = FreshState
    /\ signalled' = FALSE
    /\ op' = "killed"
    /\ emitted' = <<>>
    /\ notified' = NoNotify
    /\ UNCHANGED <<ctl, sink, cfg, now, outage_len, outage_failures, ended,
                   restart_times, exceeded, timing, dry_run, disk, saved, pid_file,
                   spawned, window_opened, loaded_alerted, probe>>

\* A tick during which the process is killed.
KilledInTick(fate) ==
    \/ RunOnceRestartF(fate, SinksWork)
    \/ RunOnceSkipF(fate, SinksWork)
    \/ RunOnceHealthyF(fate, SinksWork)
    \/ RunOnceUnhealthyF(fate, SinksWork)

\* A daemon, dry or not, that can be killed at any point and is relaunched;
\* its ticks are one second apart.
NextDaemon ==
    \/ NextUnit
    \/ KillBetweenTicks
    \/ KilledInTick("killed_before_save") /\ now' = now + 1
    \/ KilledInTick("killed_in_save") /\ now' = now + 1

SpecDaemon == InitDaemon /\ [][NextDaemon]_vars

\* status(): one probe of the service through check_service.
StatusProbe_Handles(s, healthy, t) ==
    IF healthy THEN ResetOnRecovery(CheckService(s, healthy, t))
    ELSE [CheckService(s, healthy, t) EXCEPT !.consecutive_failures = @ + 1]
StatusProbe_ReadOnly(s, healthy, t) == s
StatusProbe(s, healthy, t) == CheckService(s, healthy, t)

\* status() is called in the process, between two ticks or before run().
StatusCall ==
    /\ now < MaxTime
    /\ \E healthy \in BOOLEAN : state' = StatusProbe(state, healthy, now)
    /\ op' = "status"
    /\ emitted' = <<>>
    /\ notified' = NoNotify
    /\ UNCHANGED <<ctl, sink, cfg, now, outage_len, outage_failures, ended,
                   restart_times, exceeded, timing, dry_run, running, disk, saved,
                   pid_file, spawned, kills, window_opened, loaded_alerted,
                   probe, signalled>>

\* A daemon with ticks one second apart whose status() is called at any time.
\* The same services with enabled: false.
DisabledConfigs == {[c EXCEPT !.enabled = FALSE] : c \in DaemonConfigs}

RunOnceDisabled == RunOnceDisabledF("completes")

NextStatus ==
    \/ NextUnit
    \/ RunOnceDisabled
    \/ StatusCall

SpecStatus ==
    InitWith(DaemonConfigs \cup DisabledConfigs, {FALSE}, {NoProbe})
        /\ [][NextStatus]_vars

\* SIGTERM or SIGINT is handled while the loop sleeps between two ticks.
SignalBetweenTicks ==
    /\ running
    /\ ~signalled
    /\ signalled' = TRUE
    /\ op' = "signalled"
    /\ emitted' = <<>>
    /\ notified' = NoNotify
    /\ UNCHANGED <<ctl, sink, cfg, state, now, outage_len, outage_failures,
                   ended, restart_times, exceeded, timing, dry_run, running,
                   disk, saved, pid_file, spawned, kills, window_opened,
                   loaded_alerted, probe>>

\* A tick during which SIGTERM or SIGINT is handled.
SignalledInTick ==
    \/ RunOnceRestartF("signalled", SinksWork)
    \/ RunOnceSkipF("signalled", SinksWork)
    \/ RunOnceHealthyF("signalled", SinksWork)
    \/ RunOnceUnhealthyF("signalled", SinksWork)

\* The loop finds self.running false: finally _remove_pid_file, run() returns.
RunExit ==
    /\ running
    /\ ~LoopContinues(signalled)
    /\ running' = FALSE
    /\ pid_file' = RemovePidFile(pid_file, dry_run)
    /\ op' = "stopped"
    /\ emitted' = <<>>
    /\ notified' = NoNotify
    /\ UNCHANGED <<ctl, sink, cfg, state, now, outage_len, outage_failures,
                   ended, restart_times, exceeded, timing, dry_run, disk, saved,
                   spawned, kills, window_opened, loaded_alerted, probe,
                   signalled>>

\* A daemon, dry or not, with ticks one second apart, that is sent a signal
\* at any point.
NextShutdown ==
    \/ NextUnit
    \/ SignalBetweenTicks
    \/ SignalledInTick /\ now' = now + 1
    \/ RunExit

\* The loop goes on: a daemon told to stop reaches the test of its loop.
SpecShutdown ==
    InitWith(DaemonConfigs, BOOLEAN, {NoProbe})
        /\ [][NextShutdown]_vars /\ WF_vars(RunExit)

\* A daemon whose sinks can fail or raise at any event.
NextNotify ==
    \/ RunStart
    \/ RunOnceRestartF("completes", SinkOutcomes)
    \/ RunOnceSkipF("completes", SinkOutcomes)
    \/ RunOnceHealthyF("completes", SinkOutcomes)
    \/ RunOnceUnhealthyF("completes", SinkOutcomes)

SpecNotify == InitWith(DaemonConfigs, {FALSE}, {NoProbe}) /\ [][NextNotify]_vars

\* The calls of check() to follow: any set of configured methods, any
\* answer of the environment to each method.
ProbeInputs ==
    {[NoProbe EXCEPT !.methods = ms, !.env = e] :
        ms \in SUBSET Range(MethodOrder),
        e \in [health_url   : MethodOutcomes.health_url,
               port         : MethodOutcomes.port,
               pid_file     : MethodOutcomes.pid_file,
               process_name : MethodOutcomes.process_name]}

\* One configuration of the supervisor: check() reads none of its fields.
ProbeConfigs ==
    {c \in Configs : /\ c.failure_threshold = MaxThreshold
                     /\ c.restart_delay = MaxDelay
                     /\ c.max_restarts = MaxMaxRestarts
                     /\ c.restart_window = MaxWindow
                     /\ c.check_interval = MaxInterval}

InitProbe == InitWith(ProbeConfigs, {FALSE}, ProbeInputs)

\* monitor.check() is called once.
ProbeCheck ==
    /\ ~probe.done
    /\ LET r == Check(probe.methods, probe.env)
       IN  probe' = [probe EXCEPT !.done = TRUE, !.threw = r.threw,
                                  !.status = r.status,
                                  !.consulted = r.consulted]
    /\ UNCHANGED <<supervisor, ctl, sink>>

NextProbe == ProbeCheck

SpecProbe == InitProbe /\ [][NextProbe]_vars

\* The calls of start(), stop() and restart() to follow: any set of
\* configured commands, any outcome of each command.
CtlInputs ==
    {[NoCtl EXCEPT !.commands = cs, !.outcomes = o, !.call = m] :
        cs \in SUBSET Commands,
        o \in [Commands -> CommandOutcomes],
        m \in {"start", "stop", "restart"}}

InitController ==
    /\ InitCore(ProbeConfigs, BOOLEAN)
    /\ probe = NoProbe
    /\ ctl \in CtlInputs
    /\ sink = NoSink

\* ServiceController(config, dry_run).start(), .stop() or .restart() is
\* called once.
ControllerCall ==
    /\ ~ctl.done
    /\ ctl.call # "none"
    /\ LET r == CASE ctl.call = "start" -> Start(ctl.commands, dry_run, ctl.outcomes)
                  [] ctl.call = "stop" -> Stop(ctl.commands, dry_run, ctl.outcomes)
                  [] ctl.call = "restart" ->
                         Restart(ctl.commands, dry_run, ctl.outcomes)
       IN  ctl' = [ctl EXCEPT !.done = TRUE, !.ok = r.ok,
                              !.message = r.message, !.ran = r.ran]
    /\ UNCHANGED <<supervisor, probe, sink>>

NextController == ControllerCall

SpecController == InitController /\ [][NextController]_vars

\* The calls of send() to follow: any flags, credentials present or not, any
\* kind of event, any result of the transport.
SinkInputs ==
    {[NoSink EXCEPT !.config = c, !.credentials = k, !.event = e,
                    !.transport = x] :
        c \in SinkConfigs, k \in BOOLEAN, e \in EventKinds,
        x \in {"ok", "error"}}

InitSink ==
    /\ InitCore(ProbeConfigs, {FALSE})
    /\ probe = NoProbe
    /\ ctl = NoCtl
    /\ sink \in SinkInputs

\* notifier.send(event) is called once.
SinkSend ==
    /\ ~sink.done
    /\ sink.event # "none"
    /\ LET r == Send(sink.config, sink.credentials, sink.event, sink.transport)
       IN  sink' = [sink EXCEPT !.done = TRUE,
                                !.should = ShouldNotify(sink.config, sink.event),
                                !.ok = r.ok, !.message = r.message,
                                !.transported = r.transported]
    /\ UNCHANGED <<supervisor, probe, ctl>>

NextSink == SinkSend

SpecSink == InitSink /\ [][NextSink]_vars

(* ------------------------------ claims --------------------------------- *)

Max(a, b) == IF a >= b THEN a ELSE b

\* C1 Failure debounce: a FAILURE event is emitted only by handle_failure, on
\* an unhealthy observation, in a state where consecutive_failures (already
\* incremented for that observation) is >= failure_threshold.
C1_FailureDebounce ==
    FAILURE \in Range(emitted) =>
        /\ op = "unhealthy"
        /\ state.consecutive_failures >= cfg.failure_threshold

\* The second unhealthy observation reaches a threshold of 2 and alerts.
C1_Witness ==
    /\ FAILURE \in Range(emitted)
    /\ cfg.failure_threshold = 2
    /\ state.consecutive_failures = 2

\* C2 Single-edge failure: within one outage at most one FAILURE event is
\* emitted, however many unhealthy observations and restart attempts
\* (successful, failed or rate-limited) the outage sees.
C2_SingleEdgeFailure ==
    /\ outage_failures <= 1
    /\ ended.failures <= 1

\* An outage that has alerted once, went on past the threshold, saw a restart
\* attempt and has just been rate-limited.
C2_Witness ==
    /\ op = "limited"
    /\ outage_failures = 1
    /\ outage_len >= cfg.failure_threshold + 2
    /\ restart_times # {}

\* C3 as stated: every outage (maximal run of unhealthy observations) that
\* has ended emitted exactly one FAILURE event.
C3_ExactlyOneFailurePerOutage ==
    ended.len > 0 => ended.failures = 1

\* C3 amended: an outage emits one FAILURE event if its unhealthy
\* observations reach failure_threshold and none otherwise, and the event is
\* emitted at the first observation at which consecutive_failures >=
\* failure_threshold.
C3_OneFailureIffThresholdReached ==
    /\ ended.len > 0 =>
         ended.failures = (IF ended.len >= cfg.failure_threshold THEN 1 ELSE 0)
    /\ outage_len > 0 =>
         outage_failures = (IF outage_len >= cfg.failure_threshold THEN 1 ELSE 0)
    /\ FAILURE \in Range(emitted) =>
         /\ outage_len = Max(cfg.failure_threshold, 1)
         /\ state.consecutive_failures = outage_len

\* An outage longer than the threshold has ended with its single FAILURE, and
\* the next outage is still below the threshold with none.
C3_Witness ==
    /\ ended.len > cfg.failure_threshold
    /\ ended.failures = 1
    /\ outage_len = 1
    /\ cfg.failure_threshold = 2
    /\ outage_failures = 0

\* C4 Recovery edge: a healthy observation emits RECOVERY exactly when, just
\* before it, consecutive_failures > 0 or alerted is true; so the first
\* healthy observation after an outage emits exactly one RECOVERY, a healthy
\* observation after a healthy one or after a fresh start emits none, and no
\* other step emits RECOVERY.
C4_RecoveryEdge ==
    [][ /\ op' = "healthy" =>
             /\ (RECOVERY \in Range(emitted')) <=>
                    (state.consecutive_failures > 0 \/ state.alerted)
             /\ emitted' = (IF outage_len > 0 THEN <<RECOVERY>> ELSE <<>>)
        /\ op' # "healthy" => RECOVERY \notin Range(emitted')
      ]_vars

\* A one-observation outage below the threshold (never alerted) has just
\* ended with a RECOVERY event.
C4_Witness ==
    /\ op = "healthy"
    /\ emitted = <<RECOVERY>>
    /\ ended = [len |-> 1, failures |-> 0]
    /\ cfg.failure_threshold = 2

\* The controller.restart() invocations inside the interval [t, t + w).
InvocationsFrom(t, w) == {u \in restart_times : t <= u /\ u < t + w}

\* C5 as stated: every interval of duration restart_window, wherever it
\* starts, holds at most max_restarts controller.restart() invocations
\* (checked for the configurations with failure_threshold >= 1).
C5_SlidingWindowLimit ==
    cfg.failure_threshold >= 1 =>
        \A t \in restart_times :
            Cardinality(InvocationsFrom(t, cfg.restart_window)) <= cfg.max_restarts

\* C5 amended: the invocations made since restart_window_start all lie in the
\* tracked window [restart_window_start, restart_window_start +
\* restart_window], and there are at most max_restarts of them (none when
\* max_restarts <= 0).
C5_TrackedWindowLimit ==
    LET since == {u \in restart_times : u >= state.restart_window_start}
    IN  /\ state.restart_window_start = None => restart_times = {}
        /\ state.restart_window_start # None =>
             /\ \A u \in since :
                    u <= state.restart_window_start + cfg.restart_window
             /\ Cardinality(since) <= Max(cfg.max_restarts, 0)

\* The window was rolled after a full one: max_restarts invocations in the
\* current window and invocations of an earlier window before it.
C5_Witness ==
    /\ cfg.max_restarts = 2
    /\ state.restart_count = 2
    /\ \E u \in restart_times : u < state.restart_window_start

\* C6 No restart at the ceiling: a tick that finds restart_count >=
\* max_restarts invokes controller.restart() only if more than restart_window
\* seconds have passed since restart_window_start.
C6_NoRestartUntilWindowElapsed ==
    [][ (op' \in {"restart_ok", "restart_failed"}
           /\ state.restart_count >= cfg.max_restarts) =>
          /\ state.restart_window_start # None
          /\ now - state.restart_window_start > cfg.restart_window
      ]_vars

\* With max_restarts = 1 a second invocation has happened: it was made with
\* the ceiling reached, after the window had aged out.
C6_Witness ==
    /\ cfg.max_restarts = 1
    /\ Cardinality(restart_times) = 2
    /\ op \in {"restart_ok", "restart_failed"}

\* C7 With max_restarts >= 0, 0 <= restart_count <= max_restarts.
C7_RestartCountBounded ==
    cfg.max_restarts >= 0 =>
        /\ 0 <= state.restart_count
        /\ state.restart_count <= cfg.max_restarts

\* The ceiling is reached.
C7_Witness ==
    /\ cfg.max_restarts = 2
    /\ state.restart_count = 2

\* C8 as stated: once the rate-limit branch has cleared pending_restart_at,
\* it stays absent while restart_count = max_restarts and the window has not
\* aged out, and at most one 'exceeded maximum' event is emitted per window
\* (checked for the configurations with failure_threshold >= 1 and
\* max_restarts >= 1).
C8_NoRescheduleWhileLimited ==
    (cfg.failure_threshold >= 1 /\ cfg.max_restarts >= 1) =>
        /\ (/\ exceeded >= 1
            /\ state.restart_count = cfg.max_restarts
            /\ now - state.restart_window_start <= cfg.restart_window)
              => state.pending_restart_at = None
        /\ exceeded <= 1

\* C9 pending_restart_at present implies consecutive_failures >=
\* failure_threshold, after every operation of the supervisor.
C9_PendingImpliesThreshold ==
    state.pending_restart_at # None =>
        state.consecutive_failures >= cfg.failure_threshold

\* The reschedule after a failed restart.
C9_Witness ==
    /\ op = "restart_failed"
    /\ state.pending_restart_at # None
    /\ cfg.failure_threshold = 2

\* C10 alerted is true only if consecutive_failures >= failure_threshold,
\* and it is false after any healthy observation.
C10_AlertedImpliesThreshold ==
    /\ state.alerted => state.consecutive_failures >= cfg.failure_threshold
    /\ op = "healthy" => ~state.alerted

\* A healthy observation has just ended an outage that had alerted.
C10_Witness ==
    /\ op = "healthy"
    /\ ended.failures = 1
    /\ ~state.alerted
    /\ cfg.failure_threshold = 2

(* C11: when a tick of run_once finds a pending restart that is due, the tick
   attempts the restart and does not probe the service, even if
   check_interval has elapsed since the last probe: the step is a restart
   step and last_check and last_status are left as they were. *)
C11_RestartBeforeProbe ==
    [][(running /\ now < MaxTime /\ state.pending_restart_at \in 1..now)
         => (/\ op' \in {"restart_ok", "restart_failed", "limited"}
             /\ state'.last_check = state.last_check
             /\ state'.last_status = state.last_status)]_vars

\* A restart was attempted in a tick in which a probe was due as well.
C11_Witness ==
    /\ op \in {"restart_ok", "restart_failed"}
    /\ state.last_check # None
    /\ \E t \in restart_times :
         /\ \A u \in restart_times : u <= t
         /\ t - state.last_check >= cfg.check_interval

\* The times at which the service of the current outage can have become
\* unhealthy: after the last healthy observation and no later than the first
\* unhealthy one.
BecameUnhealthyAt ==
    IF timing.healthy_at = None THEN {timing.outage_at}
    ELSE (timing.healthy_at + 1)..timing.outage_at

\* failure_threshold * check_interval + restart_delay
ClaimedLatency == cfg.failure_threshold * cfg.check_interval + cfg.restart_delay

(* C12 as stated: with ticks one second apart, the first controller.restart()
   of an outage that began at T is made no earlier than
   T + failure_threshold*check_interval + restart_delay and no later than
   that plus one tick plus one check_interval.  Read for configurations with
   failure_threshold >= 1. *)
C12_RestartLatency ==
    (cfg.failure_threshold >= 1 /\ timing.restart_at # None) =>
        \A T \in BecameUnhealthyAt :
            /\ timing.restart_at >= T + ClaimedLatency
            /\ timing.restart_at <= T + ClaimedLatency + 1 + cfg.check_interval

(* C12 amended: the failure_threshold-th unhealthy observation comes
   (failure_threshold - 1) check intervals after the first, so the first
   controller.restart() is made no earlier than
   T + (failure_threshold - 1)*check_interval + restart_delay; and, unless
   the rate limit refused a restart before it, no later than
   T + failure_threshold*check_interval + restart_delay + one tick + one
   check_interval. *)
C12_RestartLatencyFromFirstFailure ==
    timing.restart_at # None =>
        \A T \in BecameUnhealthyAt :
            /\ timing.restart_at >= T + ClaimedLatency - cfg.check_interval
            /\ ~timing.limited =>
                 timing.restart_at <= T + ClaimedLatency + 1 + cfg.check_interval

\* The first restart of an outage that followed a healthy observation and
\* needed two unhealthy observations and a delay.
C12_Witness ==
    /\ timing.restart_at # None
    /\ timing.healthy_at # None
    /\ ~timing.limited
    /\ cfg.failure_threshold >= 2
    /\ cfg.restart_delay >= 2

(* C13 as stated: the rate limit survives a kill and relaunch of the daemon.
   In a real (not dry) run, the controller.restart() invocations made since
   the rate-limit window in force was opened, before and after any relaunch
   together, do not exceed max_restarts. *)
C13_RateLimitSurvivesRelaunch ==
    (~dry_run /\ window_opened # None) =>
        Cardinality(InvocationsFrom(window_opened, cfg.restart_window)) <= cfg.max_restarts

(* C14: after the daemon is relaunched with alerted = true in the persisted
   state, no FAILURE event is emitted until a healthy observation is made. *)
C14_NoFailureAfterRelaunchWhileAlerted ==
    loaded_alerted => FAILURE \notin Range(emitted)

\* A relaunched daemon that loaded alerted = true has observed the service
\* unhealthy again.
C14_Witness ==
    /\ loaded_alerted
    /\ kills >= 1
    /\ op = "unhealthy"
    /\ outage_len >= 2

(* C16 as stated: the state file is replaced atomically, so at every moment,
   a kill inside _save_state included, it is absent or holds one complete
   snapshot. *)
C16_StateFileNeverPartial == disk.kind \in {"absent", "complete"}

(* C17: in dry-run no subprocess is spawned and neither the state file nor
   the PID file is written, and a restart tick leaves the state and emits the
   events that attempt_restart gives with a restart command that succeeds. *)
C17_DryRunIsolation ==
    [][(dry_run /\ running) =>
         /\ ~spawned'
         /\ disk' = NoFile
         /\ pid_file' = "absent"
         /\ (running' /\ op' \in {"restart_ok", "restart_failed", "limited"}) =>
              /\ state' = AttemptRestart(state, cfg, now, TRUE, 0).state
              /\ emitted' = AttemptRestart(state, cfg, now, TRUE, 0).events]_vars

\* A dry run has gone through a restart that invoked the controller.
C17_Witness ==
    /\ dry_run
    /\ op = "restart_ok"
    /\ restart_times # {}
    /\ state.restart_count >= 1

(* C18: every event is passed to every sink even when an earlier sink fails
   or raises, and the state the handler leaves is the one it leaves when
   every sink succeeds. *)
C18_EverySinkNotified ==
    [][(running /\ emitted' # <<>>) =>
         /\ notified'.calls = SinkOrder
         /\ ~notified'.raised
         /\ op' = "healthy" =>
              state' = HandleRecovery(CheckService(state, TRUE, state'.last_check)).state
         /\ op' = "unhealthy" =>
              state' = HandleFailure(CheckService(state, FALSE, state'.last_check),
                                     cfg, state'.last_check).state
         /\ op' \in {"restart_ok", "restart_failed", "limited"} =>
              \E ok \in BOOLEAN, d \in 0..MaxOpTime :
                  state' = AttemptRestart(state, cfg, now, ok, d).state]_vars

\* An event was notified, the first sink raised and the second was called.
C18_Witness ==
    /\ emitted # <<>>
    /\ notified.sink_raised
    /\ notified.calls = SinkOrder
    /\ state.alerted

(* C15: from_dict(to_dict(s)) has the started_at of s and, for every service,
   its consecutive_failures, restart_count, restart_window_start, last_check,
   pending_restart_at and alerted; only last_status, which is not written,
   comes back as the default. *)
C15_RoundTrip ==
    LET ws == WatchdogState(state, StartTime)
    IN  FromDict(ToDict(ws), now + 1) =
            [ws EXCEPT !.services[Svc].last_status = "none"]

\* The file saved by the last tick holds a state with a pending restart, an
\* alert and a restart counted, and loading it gives that state back.
C15_Witness ==
    /\ state.pending_restart_at # None
    /\ state.alerted
    /\ state.restart_count >= 1
    /\ state.last_status # "none"
    /\ disk.kind = "complete"
    /\ ServiceOf(FromDict(disk.data, now)) = [state EXCEPT !.last_status = "none"]

\* The configured methods in the preference order, from the i-th on.
RECURSIVE ConfiguredFrom(_, _)
ConfiguredFrom(i, methods) ==
    IF i > Len(MethodOrder) THEN <<>>
    ELSE (IF MethodOrder[i] \in methods THEN <<MethodOrder[i]>> ELSE <<>>)
         \o ConfiguredFrom(i + 1, methods)

(* C19: check consults the configured methods in the order health_url, port,
   pid_file, process_name, stops at the first that reports running = true,
   consulting none after it, and the check_method it returns names the last
   method consulted, "unknown" if none is configured. *)
C19_ProbePreference ==
    (probe.done /\ ~probe.threw) =>
        LET configured == ConfiguredFrom(1, probe.methods)
            n == Len(probe.consulted)
        IN  /\ n <= Len(configured)
            /\ \A i \in 1..n : probe.consulted[i].method = configured[i]
            /\ \A i \in 1..n : probe.consulted[i].running => i = n
            /\ n < Len(configured) => probe.consulted[n].running
            /\ probe.status.check_method =
                   IF n = 0 THEN "unknown" ELSE probe.consulted[n].method

\* All four methods are configured; the first fails, the second reports
\* running and the last two are not consulted.
C19_Witness ==
    /\ probe.done
    /\ probe.methods = Range(MethodOrder)
    /\ Len(probe.consulted) = 2
    /\ ~probe.consulted[1].running
    /\ probe.status.running
    /\ probe.status.check_method = "port"

\* The answers of the environment with which a method fails.
FailingOutcomes ==
    {"status_500", "timeout", "transport_error", "closed", "socket_error",
     "missing", "unparseable", "unreadable", "stale", "gone_before_open",
     "gone_after_open", "access_denied", "no_match"}

(* C20 as stated: check never throws, whatever the methods configured and
   the answers of the environment, and when the last method consulted fails
   the observation returned has running = false and a non-empty error. *)
C20_ProberNeverThrows ==
    probe.done =>
        /\ ~probe.threw
        /\ (/\ probe.consulted # <<>>
            /\ probe.consulted[Len(probe.consulted)].outcome \in FailingOutcomes)
               => (~probe.status.running /\ probe.status.error # "None")

\* The restart tick of the next step is an attempt that invokes the controller.
AttemptStep == op' \in {"restart_ok", "restart_failed"}

\* The next step is a probe of the service.
ObservationStep == op' \in {"healthy", "unhealthy"}

(* C26 as stated: after a restart attempt has fired, with failure_threshold
   at least 2, the first unhealthy observation after the attempt does not
   yet schedule the next restart: failure_threshold further unhealthy
   observations are counted first. *)
C26_DebounceRepeatsAfterRestart ==
    [][(cfg.failure_threshold >= 2 /\ op = "restart_ok" /\ op' = "unhealthy")
         => state'.pending_restart_at = None]_vars

(* C26 amended: a restart attempt leaves consecutive_failures as it was, so
   the first unhealthy observation after a successful attempt finds the
   threshold still reached and schedules the next restart restart_delay
   after that observation. *)
C26_RestartKeepsFailureCount ==
    [][/\ AttemptStep => state'.consecutive_failures = state.consecutive_failures
       /\ (op = "restart_ok" /\ op' = "unhealthy")
            => state'.pending_restart_at = state'.last_check + cfg.restart_delay]_vars

\* The first unhealthy observation after an attempt in the same outage has
\* scheduled the next restart.
C26_Witness ==
    /\ op = "unhealthy"
    /\ cfg.failure_threshold >= 2
    /\ outage_len = cfg.failure_threshold + 1
    /\ timing.restart_at # None
    /\ state.pending_restart_at = state.last_check + cfg.restart_delay

(* C27: a healthy observation sets consecutive_failures to 0, alerted to
   false and pending_restart_at to absent and invokes no restart; with no
   restart pending the next tick is no restart tick, so a restart scheduled
   and not yet due at the observation is never made. *)
C27_HealthyCancelsPending ==
    [][/\ op' = "healthy" =>
            /\ state'.consecutive_failures = 0
            /\ ~state'.alerted
            /\ state'.pending_restart_at = None
            /\ restart_times' = restart_times
       /\ op = "healthy" => op' \notin {"restart_ok", "restart_failed", "limited"}]_vars

\* An outage reached the threshold, so that a restart was scheduled, and a
\* healthy observation ended it before any restart tick.
C27_Witness ==
    /\ op = "healthy"
    /\ cfg.failure_threshold >= 1
    /\ ended.len >= cfg.failure_threshold
    /\ restart_times = {}
    /\ exceeded = 0
    /\ state.pending_restart_at = None

(* C28: processing an observation, healthy or unhealthy, leaves
   restart_window_start and restart_count as they were, so restarts of an
   earlier outage still count in a later outage inside the same window. *)
C28_ObservationKeepsWindow ==
    [][ObservationStep =>
         /\ state'.restart_window_start = state.restart_window_start
         /\ state'.restart_count = state.restart_count]_vars

\* A restart of a later outage is refused on the count of restarts that were
\* all made before the healthy observation between the two outages.
C28_Witness ==
    /\ op = "limited"
    /\ cfg.max_restarts >= 1
    /\ timing.healthy_at # None
    /\ restart_times # {}
    /\ \A t \in restart_times : t < timing.healthy_at

(* C29: a due restart that the rate limit does not refuse invokes
   controller.restart() once, leaves restart_count one above its value after
   window maintenance whatever the outcome, and emits one event: RESTART
   with pending_restart_at absent on success, RESTART_FAILED with
   pending_restart_at = time.time() + restart_delay on failure. *)
C29_AttemptCountsOnce ==
    [][/\ (/\ running /\ now < MaxTime
           /\ state.pending_restart_at \in 1..now
           /\ WindowMaintenance(state, cfg, now).restart_count < cfg.max_restarts)
            => AttemptStep
       /\ AttemptStep =>
            /\ now \notin restart_times
            /\ restart_times' = restart_times \cup {now}
            /\ state'.restart_count =
                   WindowMaintenance(state, cfg, now).restart_count + 1
            /\ op' = "restart_ok" =>
                   (emitted' = <<RESTART>> /\ state'.pending_restart_at = None)
            /\ op' = "restart_failed" =>
                   /\ emitted' = <<RESTART_FAILED>>
                   /\ state'.pending_restart_at = (now' - 1) + cfg.restart_delay]_vars

\* A second attempt of one window has failed and is rescheduled.
C29_Witness ==
    /\ op = "restart_failed"
    /\ state.restart_count >= 2
    /\ state.pending_restart_at # None
    /\ emitted = <<RESTART_FAILED>>

(* C30: a due restart in a state where, after window maintenance,
   restart_count >= max_restarts does not invoke the controller, leaves
   restart_count unchanged, emits one RESTART_FAILED event and clears
   pending_restart_at; with max_restarts = 2 the third due time after two
   attempts is such a refusal. *)
C30_RateLimitedOutcome ==
    [][/\ (/\ running /\ now < MaxTime
           /\ state.pending_restart_at \in 1..now
           /\ WindowMaintenance(state, cfg, now).restart_count >= cfg.max_restarts)
            => op' = "limited"
       /\ op' = "limited" =>
            /\ restart_times' = restart_times
            /\ state'.restart_count = WindowMaintenance(state, cfg, now).restart_count
            /\ emitted' = <<RESTART_FAILED>>
            /\ exceeded' >= 1
            /\ state'.pending_restart_at = None]_vars

\* With max_restarts = 2, two failed attempts were made in one outage and the
\* third due time was refused.
C30_Witness ==
    /\ op = "limited"
    /\ cfg.max_restarts = 2
    /\ cfg.failure_threshold >= 1
    /\ Cardinality(restart_times) = 2
    /\ state.restart_count = 2
    /\ exceeded = 1
    /\ outage_len = cfg.failure_threshold

\* validate(): a restart_command or a start_command is configured.
ValidCommands == "restart_command" \in ctl.commands \/ "start_command" \in ctl.commands

(* C21 as stated: restart() runs restart_command alone when it is configured;
   without it, it runs stop_command (if configured) followed by
   start_command, for every outcome of the stop command. *)
C21_RestartRunsStopThenStart ==
    (ctl.done /\ ctl.call = "restart" /\ ~dry_run /\ ValidCommands) =>
        ctl.ran = IF "restart_command" \in ctl.commands
                  THEN <<"restart_command">>
                  ELSE IF "stop_command" \in ctl.commands
                       THEN <<"stop_command", "start_command">>
                       ELSE <<"start_command">>

(* C21 amended: restart() runs restart_command alone when it is configured;
   without it, it runs stop_command (if configured) and, only if that
   succeeded, start_command; a failed stop ends restart() with failure and
   start_command is not run. *)
C21_RestartAbortsOnFailedStop ==
    (ctl.done /\ ctl.call = "restart" /\ ~dry_run /\ ValidCommands) =>
        IF "restart_command" \in ctl.commands
        THEN ctl.ran = <<"restart_command">>
        ELSE IF "stop_command" \in ctl.commands
             THEN IF ctl.outcomes["stop_command"] = "zero"
                  THEN ctl.ran = <<"stop_command", "start_command">>
                  ELSE ctl.ran = <<"stop_command">> /\ ~ctl.ok
                       /\ ctl.message = "stop_failed"
             ELSE ctl.ran = <<"start_command">>

\* restart() without restart_command: the stop command failed and
\* start_command, which would have succeeded, was not run.
C21_Witness ==
    /\ ctl.done /\ ctl.call = "restart" /\ ~dry_run
    /\ ctl.commands = {"stop_command", "start_command"}
    /\ ctl.outcomes["stop_command"] = "nonzero"
    /\ ctl.outcomes["start_command"] = "zero"
    /\ ctl.ran = <<"stop_command">>
    /\ ~ctl.ok

(* C22 as stated: in dry-run each of start(), stop() and restart() runs no
   command and returns ok = true with the dry-run message, for every valid
   configuration, one without stop_command included. *)
C22_DryRunAlwaysOk ==
    (ctl.done /\ dry_run /\ ValidCommands) =>
        (ctl.ran = <<>> /\ ctl.ok /\ ctl.message = "dry_run")

(* C22 amended: in dry-run no command is run by start(), stop() or restart();
   start() and restart() return ok = true with the dry-run message for every
   valid configuration, and stop() does so when stop_command is configured;
   stop() without stop_command returns ok = false, "No stop command
   configured". *)
C22_DryRunOkWhenCommandConfigured ==
    (ctl.done /\ dry_run /\ ValidCommands) =>
        /\ ctl.ran = <<>>
        /\ IF ctl.call = "stop" /\ "stop_command" \notin ctl.commands
           THEN ~ctl.ok /\ ctl.message = "no_command"
           ELSE ctl.ok /\ ctl.message = "dry_run"

\* A dry restart() through stop_command and start_command, both of which
\* would have failed, has returned ok.
C22_Witness ==
    /\ ctl.done /\ dry_run /\ ctl.call = "restart"
    /\ ctl.commands = {"stop_command", "start_command"}
    /\ ctl.outcomes["stop_command"] = "nonzero"
    /\ ctl.outcomes["start_command"] = "timeout"
    /\ ctl.ok
    /\ ctl.ran = <<>>

(* C24: should_notify(event) is false for every event when the sink is
   disabled; otherwise it is on_failure for FAILURE, on_recovery for
   RECOVERY, on_restart for RESTART and RESTART_FAILED and true for any
   other kind; when it is false send() makes no transport call and returns
   (True, skipped). *)
C24_SinkPreFilter ==
    sink.done =>
        /\ sink.should =
               (/\ sink.config.enabled
                /\ sink.event = FAILURE => sink.config.on_failure
                /\ sink.event = RECOVERY => sink.config.on_recovery
                /\ sink.event \in {RESTART, RESTART_FAILED} => sink.config.on_restart)
        /\ ~sink.should =>
               (~sink.transported /\ sink.ok /\ sink.message = "skipped")

\* A disabled sink with every flag set and working credentials was handed a
\* FAILURE and skipped it.
C24_Witness ==
    /\ sink.done
    /\ ~sink.config.enabled
    /\ sink.config.on_failure
    /\ sink.credentials
    /\ sink.event = FAILURE
    /\ sink.message = "skipped"
    /\ ~sink.transported

(* C23: status() probes the service and leaves consecutive_failures,
   restart_count, restart_window_start, alerted and pending_restart_at as
   they were; it emits no event and invokes no restart. *)
C23_StatusMutatesNoCounter ==
    [][op' = "status" =>
         /\ state'.consecutive_failures = state.consecutive_failures
         /\ state'.restart_count = state.restart_count
         /\ state'.restart_window_start = state.restart_window_start
         /\ state'.alerted = state.alerted
         /\ state'.pending_restart_at = state.pending_restart_at
         /\ emitted' = <<>>
         /\ restart_times' = restart_times
         /\ spawned' = spawned]_vars

\* status() has found the service healthy while an outage is on record: the
\* failure count, the alert and the pending restart are all still there.
C23_Witness ==
    /\ op = "status"
    /\ state.last_status = "healthy"
    /\ state.consecutive_failures >= 1
    /\ state.alerted
    /\ state.pending_restart_at # None
    /\ state.restart_count >= 1

(* C25: once a signal has been handled while run() is looping, the tick in
   progress has run to its end with the state saved, no further tick is
   started, the next step is the return of run() with the PID file removed,
   and run() does return. *)
C25_Shutdown ==
    /\ [][/\ (signalled' /\ ~signalled /\ op' # "signalled") =>
               (/\ running'
                /\ dry_run \/ disk' = CompleteFile(ToDict(WatchdogState(state', StartTime))))
          /\ (running /\ signalled) =>
               (/\ op' = "stopped"
                /\ ~running'
                /\ pid_file' = "absent"
                /\ state' = state
                /\ disk' = disk
                /\ restart_times' = restart_times)]_vars
    /\ (running /\ signalled) ~> ~running

\* A real run that restarted the service has been stopped by a signal; its
\* PID file is gone and the state it saved is the state it ended with.
C25_Witness ==
    /\ op = "stopped"
    /\ ~dry_run
    /\ signalled
    /\ pid_file = "absent"
    /\ restart_times # {}
    /\ disk = CompleteFile(ToDict(WatchdogState(state, StartTime)))

\* C31: restart_count is lowered only by the window maintenance that opens a
\* restart-due trigger: that maintenance sets restart_window_start to the
\* trigger time and restart_count to 0 exactly when restart_window_start is
\* absent or older than restart_window (strictly); the attempt that may follow
\* adds 1, and every other step leaves restart_count as it was.
WindowRolls == \/ state.restart_window_start = None
               \/ now - state.restart_window_start > cfg.restart_window

RestartTrigger == op' \in {"restart_ok", "restart_failed", "limited"}

C31_CountLoweredOnlyByWindowRoll ==
    [][/\ state'.restart_count <= state.restart_count + 1
       /\ state'.restart_count < state.restart_count
            => RestartTrigger /\ WindowRolls
       /\ RestartTrigger /\ WindowRolls
            => /\ state'.restart_window_start = now
               /\ state'.restart_count = IF AttemptStep THEN 1 ELSE 0
       /\ RestartTrigger /\ ~WindowRolls
            => /\ state'.restart_window_start = state.restart_window_start
               /\ state'.restart_count =
                      state.restart_count + IF AttemptStep THEN 1 ELSE 0
       /\ ~RestartTrigger => state'.restart_count = state.restart_count]_vars

\* A window roll has lowered the counter: two attempts precede the current
\* window, whose only attempt is the one just made.
C31_Witness ==
    /\ op \in {"restart_ok", "restart_failed"}
    /\ state.restart_window_start \in restart_times
    /\ state.restart_count = 1
    /\ Cardinality({t \in restart_times : t < state.restart_window_start}) >= 2

\* C32: run_once probes a service only when last_check is unset or at least
\* check_interval old, so two successive scheduler probes are at least
\* check_interval apart and last_check never decreases; a service with no
\* last_check is probed by the first tick in which no restart is due.
C32_CheckIntervalSpacing ==
    [][/\ state'.last_check >= state.last_check
       /\ ObservationStep
            => /\ state.last_check = None
                  \/ now - state.last_check >= cfg.check_interval
               /\ state'.last_check >= now
       /\ ~ObservationStep => state'.last_check = state.last_check
       /\ (running /\ running' /\ state.last_check = None
             /\ ~(state.pending_restart_at # None /\ now >= state.pending_restart_at))
            => ObservationStep]_vars

\* Two probes of one outage have been made with a check interval of two.
C32_Witness ==
    /\ op = "unhealthy"
    /\ cfg.check_interval >= 2
    /\ outage_len >= 2

\* C38: in a run started from fresh state, controller.restart() is invoked
\* only when the last observation was unhealthy, consecutive_failures has
\* reached failure_threshold and the failure alert has been raised.
C38_AlertBeforeAction ==
    [][AttemptStep => /\ state.last_status = "unhealthy"
                      /\ state.consecutive_failures >= cfg.failure_threshold
                      /\ state.alerted]_vars

\* A restart has been invoked for a service that needed two failures.
C38_Witness ==
    /\ op \in {"restart_ok", "restart_failed"}
    /\ cfg.failure_threshold >= 2
    /\ state.alerted

\* C35: no probe method clears an error recorded by a method consulted before
\* it: when a fallback method reports running after an earlier method failed,
\* the observation returned has running = true and the earlier error, so it is
\* not healthy; an observation is healthy iff the highest-preference
\* configured method succeeds.
SucceedingOutcomes == {"below_500", "open", "alive", "match"}

C35_ErrorIsSticky ==
    (probe.done /\ ~probe.threw) =>
        LET order == ConfiguredFrom(1, probe.methods)
        IN  /\ (Len(probe.consulted) >= 2 /\ probe.status.running)
                 => /\ probe.status.error # "None"
                    /\ ~Healthy(probe.status)
            /\ Healthy(probe.status)
                 <=> /\ order # <<>>
                     /\ probe.env[order[1]] \in SucceedingOutcomes

\* The port probe failed and the process-name fallback found the process.
C35_Witness ==
    /\ probe.done
    /\ ~probe.threw
    /\ Len(probe.consulted) >= 2
    /\ probe.status.running
    /\ probe.status.check_method = "process_name"
    /\ probe.status.error = "Port not listening"
    /\ ~Healthy(probe.status)

\* C36: restart attempts resume once the window has aged out.  While the
\* service stays unhealthy, an unhealthy observation made with no restart
\* pending schedules one, also after the rate limit has been hit; a tick that
\* finds the pending restart due makes a restart trigger; and a trigger that
\* comes more than restart_window after restart_window_start invokes
\* controller.restart() when max_restarts allows any attempt at all.
C36_RestartsResumeAfterWindow ==
    [][/\ (op' = "unhealthy" /\ state.pending_restart_at = None
             /\ state.consecutive_failures + 1 >= cfg.failure_threshold)
            => state'.pending_restart_at = state'.last_check + cfg.restart_delay
       /\ (op = "limited" /\ op' = "unhealthy")
            => state'.pending_restart_at # None
       /\ (running /\ running' /\ state.pending_restart_at # None
             /\ now >= state.pending_restart_at)
            => RestartTrigger
       /\ (RestartTrigger /\ cfg.max_restarts >= 1
             /\ state.restart_window_start # None
             /\ now - state.restart_window_start > cfg.restart_window)
            => AttemptStep]_vars

\* In an outage that has never seen a healthy observation the rate limit was
\* hit, and a restart has now been invoked in a new window.
C36_Witness ==
    /\ op \in {"restart_ok", "restart_failed"}
    /\ timing.refused
    /\ outage_len >= 1
    /\ cfg.max_restarts >= 1
    /\ state.restart_count = 1
    /\ state.restart_window_start \in restart_times
    /\ Cardinality(restart_times) = cfg.max_restarts + 1

\* ---------------------------------------------------------------------
\* Startup with a state file left by an earlier run or by an operator.

\* A per-service entry with no field at its default, and a key that
\* from_dict does not know.
StoredEntry ==
    [consecutive_failures |-> 1,
     restart_count        |-> 1,
     restart_window_start |-> StartTime,
     last_check           |-> StartTime,
     pending_restart_at   |-> StartTime,
     alerted              |-> TRUE,
     comment              |-> "edited by hand"]

\* The entries that hold some of these keys.
StoredEntries == {[k \in ks |-> StoredEntry[k]] : ks \in SUBSET DOMAIN StoredEntry}

\* The documents that hold some of started_at, services and an unknown key.
StoredDocuments ==
    {[k \in ks |-> CASE k = "started_at" -> 0
                     [] k = "services"   -> [n \in {Svc} |-> e]
                     [] k = "version"    -> 1] :
        ks \in SUBSET {"started_at", "services", "version"},
        e \in StoredEntries}

StateFiles ==
    {NoFile, UnreadableFile, TruncatedFile}
        \cup {CompleteFile(d) : d \in StoredDocuments}
        \cup {WrongShapeFile(d) : d \in StoredDocuments}

InitLoad ==
    /\ InitFiles(ProbeConfigs, {FALSE}, StateFiles, {"absent"})
    /\ probe = NoProbe
    /\ ctl = NoCtl
    /\ sink = NoSink

NextLoad == RunStart

SpecLoad == InitLoad /\ [][NextLoad]_vars

\* C33: loading never aborts startup.  With a state file that is missing,
\* unreadable, unparseable or of the wrong shape, run() goes on with the
\* fresh state built at construction and nothing of the file in it; from a
\* well-formed document every known key is taken, every missing key has its
\* default and unknown keys change nothing.
StoredFields ==
    {"consecutive_failures", "restart_count", "restart_window_start",
     "last_check", "pending_restart_at", "alerted"}

C33_LoadNeverAborts ==
    op = "started" =>
        /\ running
        /\ disk.kind # "complete" => state = FreshState
        /\ disk.kind = "complete" =>
             LET e == IF "services" \in DOMAIN disk.data
                      THEN disk.data.services[Svc] ELSE <<>>
             IN  /\ \A k \in StoredFields :
                       state[k] = IF k \in DOMAIN e THEN e[k] ELSE FreshState[k]
                 /\ state.last_status = FreshState.last_status

\* A document with a well-formed entry for the service and an ill-formed one
\* has been rejected as a whole.
C33_Witness ==
    /\ op = "started"
    /\ running
    /\ disk.kind = "wrong_shape"
    /\ "services" \in DOMAIN disk.data
    /\ "alerted" \in DOMAIN disk.data.services[Svc]
    /\ "restart_count" \notin DOMAIN disk.data.services[Svc]
    /\ state = FreshState

\* ---------------------------------------------------------------------
\* A daemon whose state file cannot always be written.
WriteFailsInTick(fate) ==
    \/ RunOnceRestartF(fate, SinksWork)
    \/ RunOnceSkipF(fate, SinksWork)
    \/ RunOnceHealthyF(fate, SinksWork)
    \/ RunOnceUnhealthyF(fate, SinksWork)

NextPersist ==
    \/ NextUnit
    \/ WriteFailsInTick("write_refused") /\ now' = now + 1
    \/ WriteFailsInTick("write_broken") /\ now' = now + 1

SpecPersist == InitWith(DaemonConfigs, {FALSE}, {NoProbe}) /\ [][NextPersist]_vars

\* C34: in a run that is not dry, a tick whose write succeeds leaves on disk
\* the snapshot of the state in memory, also after writes that failed; a tick
\* whose write fails leaves the loop running and in memory the state the
\* handlers produced, and on disk the old file or a truncated one.
TickStep ==
    op' \in {"restart_ok", "restart_failed", "limited", "skip", "healthy",
             "unhealthy"}

C34_PersistencePerTick ==
    [][TickStep =>
         /\ running'
         /\ saved' \in {"written", "recovered", "failed"}
         /\ saved' \in {"written", "recovered"}
              => disk' = CompleteFile(ToDict(WatchdogState(state', StartTime)))
         /\ saved' = "recovered" <=> (saved = "failed" /\ saved' # "failed")
         /\ saved' = "failed" => disk' \in {disk, TruncatedFile}
         /\ op' = "skip" => state' = state
         /\ op' = "healthy"
              => state' = HandleRecovery(CheckService(state, TRUE, now)).state
         /\ op' = "unhealthy"
              => state' = HandleFailure(CheckService(state, FALSE, now),
                                        cfg, now).state
         /\ RestartTrigger
              => \E success \in BOOLEAN :
                    state' = AttemptRestart(state, cfg, now, success, 0).state]_vars

\* After a write that failed, a later tick has written a state with a
\* restart on record, and the file holds it.
C34_Witness ==
    /\ saved = "recovered"
    /\ state.restart_count >= 1
    /\ disk = CompleteFile(ToDict(WatchdogState(state, StartTime)))

\* ---------------------------------------------------------------------
\* A daemon for a service that may be disabled, started where an earlier run
\* may have left a state file with a restart pending.
PendingStates ==
    {[FreshState EXCEPT !.consecutive_failures = 1,
                        !.alerted = TRUE,
                        !.last_check = StartTime,
                        !.restart_count = n,
                        !.restart_window_start = IF n = 0 THEN None ELSE StartTime,
                        !.pending_restart_at = StartTime] : n \in 0..1}

PendingFiles ==
    {CompleteFile(ToDict(WatchdogState(s, StartTime))) : s \in PendingStates}

InitDisabled ==
    /\ InitFiles(DaemonConfigs \cup DisabledConfigs, {FALSE},
                 {NoFile} \cup PendingFiles, {"absent"})
    /\ probe = NoProbe
    /\ ctl = NoCtl
    /\ sink = NoSink

NextDisabled ==
    \/ NextUnit
    \/ RunOnceDisabled

SpecDisabled == InitDisabled /\ [][NextDisabled]_vars

\* C37: for a service with enabled = false a run_once tick makes no probe and
\* no restart, emits no event and changes no field of the service's state,
\* also when the state loaded at startup holds a restart that is due.
C37_DisabledServiceUntouched ==
    [][(running /\ running' /\ ~cfg.enabled) =>
         /\ op' = "disabled"
         /\ state' = state
         /\ emitted' = <<>>
         /\ restart_times' = restart_times
         /\ spawned' = spawned
         /\ ~spawned']_vars

\* Ticks have passed over a disabled service whose loaded restart is overdue.
C37_Witness ==
    /\ op = "disabled"
    /\ ~cfg.enabled
    /\ state.pending_restart_at # None
    /\ now > state.pending_restart_at + 1
    /\ state.last_check = StartTime
    /\ restart_times = {}

\* C39: status() sets last_check and last_status of the service, enabled or
\* not, without running a handler; the run_once tick that follows it within
\* check_interval makes no probe.
C39_StatusResetsCheckTimer ==
    [][/\ op' = "status"
            => /\ state'.last_check = now
               /\ state'.last_status \in {"healthy", "unhealthy"}
               /\ state' = [state EXCEPT !.last_check = state'.last_check,
                                         !.last_status = state'.last_status]
               /\ emitted' = <<>>
       /\ (op = "status" /\ running /\ running')
            => op' \notin {"healthy", "unhealthy"}
       /\ (running /\ running' /\ op' # "status" /\ cfg.enabled
             /\ state.last_check # None
             /\ now - state.last_check < cfg.check_interval)
            => op' \in {"skip", "restart_ok", "restart_failed", "limited"}]_vars

\* A tick has skipped its probe because of a status() call: the last
\* observation is a healthy one that no handler has seen, made in the second
\* of the tick.
C39_Witness ==
    /\ op = "skip"
    /\ cfg.enabled
    /\ state.last_status = "healthy"
    /\ state.consecutive_failures >= 1
    /\ state.last_check = now - 1

\* ---------------------------------------------------------------------
\* A daemon, dry or not, started where another daemon's PID file exists at
\* the configured path.
InitPidFile ==
    /\ InitFiles(DaemonConfigs, BOOLEAN, {NoFile}, {"foreign"})
    /\ probe = NoProbe
    /\ ctl = NoCtl
    /\ sink = NoSink

SpecPidFile == InitPidFile /\ [][NextShutdown]_vars

\* C40: leaving run() removes the file at the pid_file path whenever it
\* exists; a dry run, which never writes that file, removes at its exit the
\* PID file another daemon wrote there.
C40_ExitRemovesAnyPidFile ==
    [][/\ op' = "stopped" => pid_file' = "absent"
       /\ (dry_run /\ op' # "stopped") => pid_file' = pid_file
       /\ (~dry_run /\ op' = "started") => pid_file' = "written"]_vars

\* A dry run has ended and the other daemon's PID file is gone.
C40_Witness ==
    /\ op = "stopped"
    /\ dry_run
    /\ ~running
    /\ pid_file = "absent"

====
